---- MODULE Spec2Model ----
(***************************************************************************)
(* The process-wide logger of dev_tools/logging_tools: the Singleton       *)
(* metaclass (singletone.py) and MyLogger (logger.py), run by several      *)
(* threads against one file system and one wall clock.                     *)
(*                                                                         *)
(* Strings the code slices or compares (file names, dates) are sequences   *)
(* of one-character strings, so that startswith, endswith and [4:14] are   *)
(* computed as Python computes them.                                       *)
(***************************************************************************)
EXTENDS Integers, Sequences, FiniteSets, Bags, TLC

(* ------------------------------ bounds -------------------------------- *)

\* Calls (MyLogger(...) and level methods) started in one run.
MaxCalls == 3
\* The clock runs over the days 0..MaxDate.
MaxDate == 2
\* I/O failures (makedirs, compression) the environment injects in one run.
MaxFaults == 1

Threads == {"t1", "t2"}
Days == 0..MaxDate

NoThread == "none"
NoInst == 0
Unset == <<>>

(* --------------------------- string helpers --------------------------- *)

Min(a, b) == IF a <= b THEN a ELSE b

\* str.startswith
StartsWith(s, p) == Len(s) >= Len(p) /\ SubSeq(s, 1, Len(p)) = p

\* str.endswith
EndsWith(s, p) == Len(s) >= Len(p) /\ SubSeq(s, Len(s) - Len(p) + 1, Len(s)) = p

\* s[a:b] for 0 <= a <= b
Slice(s, a, b) == SubSeq(s, a + 1, Min(b, Len(s)))

DayDigits == <<"1", "2", "3", "4", "5", "6", "7", "8", "9">>

\* strftime("%m-%d-%Y") of day d of the run: January of the year 2000, so that
\* day 0 is the "01-01-2000" of the tests.
FormatDate(d) == <<"0", "1", "-", "0", DayDigits[d + 1], "-", "2", "0", "0", "0">>

\* strftime("%m-%d-%Y %H:%M:%S"): the date, a blank, the time of day.
FormatTimestamp(d) == FormatDate(d) \o <<" ", "00:00:00">>

LogPrefix == <<"l", "o", "g", "_">>
LogSuffix == <<".", "l", "o", "g">>
GzSuffix == <<".", "g", "z">>

\* os.path.join(dir, name)
Join(dir, name) == <<dir, name>>

\* file_path + ".gz"
GzPath(path) == <<path[1], path[2] \o GzSuffix>>

\* f"log_{date}.log"
LogName(date) == LogPrefix \o date \o LogSuffix

(* ------------------------------- levels ------------------------------- *)

LEVELS == [DEBUG |-> 1, INFO |-> 2, WARNING |-> 3, ERROR |-> 4, CRITICAL |-> 5]
LevelNames == DOMAIN LEVELS

COLORS == [DEBUG |-> "\\033[94m", INFO |-> "\\033[92m", WARNING |-> "\\033[93m",
           ERROR |-> "\\033[91m", CRITICAL |-> "\\033[41m", RESET |-> "\\033[0m"]

\* The level strings a caller passes to MyLogger(...).
LevelArgs == {"DEBUG", "info", "Warning", "verbose"}

\* str.upper on the strings of LevelArgs and of LevelNames.
Upper(s) ==
    CASE s = "info" -> "INFO"
      [] s = "Warning" -> "WARNING"
      [] s = "verbose" -> "VERBOSE"
      [] OTHER -> s

NormalizeLevelCaseSensitive(arg) == IF arg \in LevelNames THEN arg ELSE "DEBUG"

\* level.upper() if level.upper() in self.LEVELS else "DEBUG"
NormalizeLevel(arg) == IF Upper(arg) \in LevelNames THEN Upper(arg) ELSE "DEBUG"

PassesStrictly(level, minimum) == LEVELS[level] > LEVELS[minimum]

PassesIgnoringThreshold(level, minimum) == LEVELS[level] >= LEVELS.DEBUG

\* self.LEVELS[level] >= self.LEVELS[self.level]
Passes(level, minimum) == LEVELS[level] >= LEVELS[minimum]

\* f"[{timestamp}] [{level}] {message}"
FormatMessage(timestamp, level, message) ==
    <<"[", timestamp, "] [", level, "] ", message>>

\* log_message + "\n"
FileLine(log_message) == log_message \o <<"\n">>

\* f"{color}{log_message}{self.COLORS['RESET']}"
ConsoleLine(level, log_message) == <<COLORS[level], log_message, COLORS.RESET>>

(* ------------------------------- gzip --------------------------------- *)

\* gzip.open(gz_path, "wb") + shutil.copyfileobj: a gzip container of the bytes.
Gzip(content) == <<"gzip", content>>

\* What gzip.open(gz_path, "wb") leaves when the copy fails: a truncated
\* container.
GzipTruncated == <<"gzip-truncated", <<>> >>

\* gzip.open(gz_path, "rb").read()
Gunzip(z) == z[2]

\* Whether gzip can read the container to its end.
GzipIntact(z) == z[1] = "gzip"

(* ------------------------------ directories --------------------------- *)

DirA == <<"l", "o", "g", "s">>
DirB == <<"t", "m", "p">>
LogDirs == {DirA, DirB}

OldContent == << <<"Old log message">> >>

\* Python's None, for an argument the command line leaves out.
None == "None"

\* git_tool before any of its functions is called. pc: where it is ("returned":
\* the function called has returned, "done": an exception or sys.exit has ended
\* it); ran: the commands run; out: the lines printed; ret: the last value
\* returned; status, code: the exception that ended it and the exit status.
GitIdle == [pc |-> "idle", entry |-> "none", args |-> Unset, result |-> Unset,
            ran |-> <<>>, out |-> <<>>, ret |-> Unset, status |-> "none",
            code |-> Unset]

(* ------------------------------- state -------------------------------- *)

VARIABLES
    clock,      \* the day datetime.datetime.now() falls on
    dirs,       \* the directories that exist
    files,      \* the file system: path -> content, for the files that exist
    console,    \* what print() has written, as a bag of lines
    instances,  \* Singleton._instances[MyLogger]: an object, or NoInst
    lock,       \* Singleton._lock: the thread holding it, or NoThread
    heap,       \* the MyLogger objects created so far, by identity
    handles,    \* the objects MyLogger(...) has returned to the program
    pc,         \* each thread's position in the code
    loc,        \* each thread's local variables, of its current or last call
    outcome,    \* how each thread's current or last call ended
    calls,      \* calls started so far
    faults,     \* I/O failures injected so far
    hist,       \* history: what each thread's current or last call saw and did
    quiet,      \* history: no other thread has stepped since this thread's call began
    ctor,       \* history: constructor bodies started, finished, failed
    git         \* the git_tool process: its position, its output, how it ended

\* The variables of the logger.
loggerVars == <<clock, dirs, files, console, instances, lock, heap, handles,
                pc, loc, outcome, calls, faults, hist, quiet, ctor>>

vars == <<loggerVars, git>>

NoLocals == [op |-> "none", self |-> NoInst, dir |-> Unset, level |-> "none",
             message |-> Unset, log_message |-> Unset, today |-> Unset,
             file_path |-> Unset, listing |-> {}]

\* pre: the file system when the call began; old_date, old_file: the logger's
\* current_date and log_file then; present: whether an instance was registered
\* then; printed, appended, compressed, removed: what the call has done so far;
\* built: the call has run the constructor body to its end; returned: the object
\* MyLogger(...) has returned.
NoHistory == [pre |-> <<>>, old_date |-> Unset, old_file |-> Unset,
              present |-> FALSE, printed |-> <<>>, appended |-> <<>>,
              compressed |-> {}, removed |-> {}, built |-> FALSE,
              returned |-> NoInst]

Exists(path) == path \in DOMAIN files

\* os.listdir(dir)
ListDir(dir) == {p[2] : p \in {q \in DOMAIN files : q[1] = dir}}

WriteFile(fs, path, content) == (path :> content) @@ fs
RemoveFile(fs, path) == [q \in (DOMAIN fs) \ {path} |-> fs[q]]

\* f.write(...) on a file opened with "a": created if absent.
AppendFile(fs, path, line) ==
    WriteFile(fs, path, IF path \in DOMAIN fs THEN Append(fs[path], line) ELSE <<line>>)

Emit(bag, line) == bag (+) SetToBag({line})

\* A name of another shape than log_<date>.log that starts with "log_" and ends
\* with ".log".
ShortLogName == LogPrefix \o <<"x">> \o LogSuffix

\* The file systems a process may start in: no directory at all, an empty
\* directory, stale logs of an earlier day (one already archived once), a log of
\* the day the process starts on, a file of another name.
InitialFiles ==
    { <<>>,
      (Join(DirA, ShortLogName) :> OldContent),
      (Join(DirA, LogName(FormatDate(0))) :> OldContent),
      (Join(DirA, LogName(FormatDate(0))) :> OldContent)
         @@ (Join(DirA, LogName(FormatDate(1))) :> OldContent),
      (Join(DirA, LogName(FormatDate(0))) :> OldContent)
         @@ (GzPath(Join(DirA, LogName(FormatDate(0)))) :> Gzip(<< <<"Older log message">> >>))
         @@ (Join(DirB, LogName(FormatDate(0))) :> OldContent) }

Init ==
    /\ clock = 1
    /\ files \in InitialFiles
    /\ dirs \in {{p[1] : p \in DOMAIN files}, {DirA}}
    /\ \A p \in DOMAIN files : p[1] \in dirs
    /\ console = EmptyBag
    /\ instances = NoInst
    /\ lock = NoThread
    /\ heap = <<>>
    /\ handles = {}
    /\ pc = [t \in Threads |-> "idle"]
    /\ loc = [t \in Threads |-> NoLocals]
    /\ outcome = [t \in Threads |-> "none"]
    /\ calls = 0
    /\ faults = 0
    /\ hist = [t \in Threads |-> NoHistory]
    /\ quiet = [t \in Threads |-> FALSE]
    /\ ctor = [started |-> 0, finished |-> 0, failed |-> 0]
    /\ git = GitIdle

(* ------------------------ control-flow helpers ------------------------ *)

\* Thread t takes a step inside its call: every other thread's call is no
\* longer undisturbed.
Step(t) == quiet' = [u \in Threads |-> u = t /\ quiet[u]]

\* Thread t begins a call: undisturbed so far when every other thread is idle.
Begin(t) == quiet' = [u \in Threads |-> u = t /\ \A v \in Threads \ {t} : pc[v] = "idle"]

Goto(t, label) == pc' = [pc EXCEPT ![t] = label] /\ Step(t)

\* A call returns normally.
Return(t) ==
    /\ pc' = [pc EXCEPT ![t] = "idle"]
    /\ outcome' = [outcome EXCEPT ![t] = "ok"]
    /\ Step(t)

RaiseKeepsLock(t, error) ==
    /\ pc' = [pc EXCEPT ![t] = "idle"]
    /\ outcome' = [outcome EXCEPT ![t] = error]
    /\ lock' = lock
    /\ Step(t)

\* An exception leaves the call; a with-block it unwinds through releases the
\* lock.
Raise(t, error) ==
    /\ pc' = [pc EXCEPT ![t] = "idle"]
    /\ outcome' = [outcome EXCEPT ![t] = error]
    /\ lock' = IF lock = t THEN NoThread ELSE lock
    /\ Step(t)

Snapshot(self) ==
    [NoHistory EXCEPT !.pre = files,
                      !.present = instances # NoInst,
                      !.old_date = IF self = NoInst THEN Unset ELSE heap[self].current_date,
                      !.old_file = IF self = NoInst THEN Unset ELSE heap[self].log_file]

(* ------------------------- Singleton.__call__ ------------------------- *)

InstanceAbsentAlways(registry) == TRUE

\* cls not in cls._instances
InstanceAbsent(registry) == registry = NoInst

\* MyLogger(log_dir, level) is called.
GetLogger(t, dir, level) ==
    /\ pc[t] = "idle"
    /\ calls < MaxCalls
    /\ calls' = calls + 1
    /\ pc' = [pc EXCEPT ![t] = "g_check1"]
    /\ loc' = [loc EXCEPT ![t] = [NoLocals EXCEPT !.op = "get", !.dir = dir, !.level = level]]
    /\ outcome' = [outcome EXCEPT ![t] = "running"]
    /\ hist' = [hist EXCEPT ![t] = Snapshot(NoInst)]
    /\ Begin(t)
    /\ UNCHANGED <<git, clock, dirs, files, console, instances, lock, heap, handles, faults, ctor>>

\* line 15: the unlocked check.
G_Check1(t) ==
    /\ pc[t] = "g_check1"
    /\ Goto(t, IF InstanceAbsent(instances) THEN "g_acquire" ELSE "g_return")
    /\ UNCHANGED <<git, clock, dirs, files, console, instances, lock, heap, handles,
                   loc, outcome, calls, faults, hist, ctor>>

\* line 16: with cls._lock
G_Acquire(t) ==
    /\ pc[t] = "g_acquire"
    /\ lock = NoThread
    /\ lock' = t
    /\ Goto(t, "g_check2")
    /\ UNCHANGED <<git, clock, dirs, files, console, instances, heap, handles,
                   loc, outcome, calls, faults, hist, ctor>>

G_Check2NoRecheck(t) ==
    /\ pc[t] = "g_check2"
    /\ Goto(t, "i_init")
    /\ UNCHANGED <<git, clock, dirs, files, console, instances, lock, heap, handles,
                   loc, outcome, calls, faults, hist, ctor>>

\* line 17: the check under the lock.
G_Check2(t) ==
    /\ pc[t] = "g_check2"
    /\ Goto(t, IF InstanceAbsent(instances) THEN "i_init" ELSE "g_release")
    /\ UNCHANGED <<git, clock, dirs, files, console, instances, lock, heap, handles,
                   loc, outcome, calls, faults, hist, ctor>>

\* line 18: cls._instances[cls] = <the object __init__ has returned from>
G_Assign(t) ==
    /\ pc[t] = "g_assign"
    /\ instances' = loc[t].self
    /\ Goto(t, "g_release")
    /\ UNCHANGED <<git, clock, dirs, files, console, lock, heap, handles,
                   loc, outcome, calls, faults, hist, ctor>>

\* the end of the with-block.
G_Release(t) ==
    /\ pc[t] = "g_release"
    /\ lock' = NoThread
    /\ Goto(t, "g_return")
    /\ UNCHANGED <<git, clock, dirs, files, console, instances, heap, handles,
                   loc, outcome, calls, faults, hist, ctor>>

\* line 19: return cls._instances[cls]
G_Return(t) ==
    /\ pc[t] = "g_return"
    /\ handles' = handles \cup {instances}
    /\ hist' = [hist EXCEPT ![t].returned = instances]
    /\ Return(t)
    /\ UNCHANGED <<git, clock, dirs, files, console, instances, lock, heap, loc, calls,
                   faults, ctor>>

(* -------------------------- MyLogger.__init__ ------------------------- *)

\* os.path.join(self.log_dir, f"log_{self.current_date}.log")
GetLogFilename(obj) == Join(obj.log_dir, LogName(obj.current_date))

I_InitRegistersEarly(t) ==
    /\ pc[t] = "i_init"
    /\ LET dir == loc[t].dir
           fields == [log_dir |-> dir,
                      level |-> NormalizeLevel(loc[t].level),
                      current_date |-> FormatDate(clock),
                      log_file |-> Unset,
                      initialized |-> FALSE]
           obj == [fields EXCEPT !.log_file = GetLogFilename(fields)]
       IN  \/ /\ heap' = Append(heap, obj)
              /\ dirs' = dirs \cup {dir}
              /\ instances' = Len(heap) + 1
              /\ pc' = [pc EXCEPT ![t] = "i_listdir"]
              /\ Step(t)
              /\ loc' = [loc EXCEPT ![t].self = Len(heap) + 1]
              /\ ctor' = [ctor EXCEPT !.started = @ + 1]
              /\ UNCHANGED <<lock, outcome, faults>>
           \/ /\ dir \notin dirs
              /\ faults < MaxFaults
              /\ faults' = faults + 1
              /\ Raise(t, "OSError")
              /\ ctor' = [ctor EXCEPT !.started = @ + 1, !.failed = @ + 1]
              /\ UNCHANGED <<heap, dirs, loc, instances>>
    /\ UNCHANGED <<git, clock, files, console, handles, calls, hist>>

\* lines 36-46 on the object super().__call__ has just created (it has no
\* _initialized, so the guard of line 36 lets it through): the fields, and the
\* directory, which makedirs may fail to create.
I_Init(t) ==
    /\ pc[t] = "i_init"
    /\ LET dir == loc[t].dir
           fields == [log_dir |-> dir,
                      level |-> NormalizeLevel(loc[t].level),
                      current_date |-> FormatDate(clock),
                      log_file |-> Unset,
                      initialized |-> FALSE]
           obj == [fields EXCEPT !.log_file = GetLogFilename(fields)]
       IN  \/ /\ heap' = Append(heap, obj)
              /\ dirs' = dirs \cup {dir}
              /\ pc' = [pc EXCEPT ![t] = "i_listdir"]
              /\ Step(t)
              /\ loc' = [loc EXCEPT ![t].self = Len(heap) + 1]
              /\ ctor' = [ctor EXCEPT !.started = @ + 1]
              /\ UNCHANGED <<lock, outcome, faults>>
           \/ /\ dir \notin dirs
              /\ faults < MaxFaults
              /\ faults' = faults + 1
              /\ Raise(t, "OSError")
              /\ ctor' = [ctor EXCEPT !.started = @ + 1, !.failed = @ + 1]
              /\ UNCHANGED <<heap, dirs, loc>>
    /\ UNCHANGED <<git, clock, files, console, instances, handles, calls, hist>>

\* line 82: os.listdir(self.log_dir)
I_ListDir(t) ==
    /\ pc[t] = "i_listdir"
    /\ loc' = [loc EXCEPT ![t].listing = ListDir(heap[loc[t].self].log_dir)]
    /\ Goto(t, "i_scan")
    /\ UNCHANGED <<git, clock, dirs, files, console, instances, lock, heap, handles,
                   outcome, calls, faults, hist, ctor>>

IsStaleLogInverted(filename, current_date) ==
    /\ StartsWith(filename, LogPrefix)
    /\ EndsWith(filename, LogSuffix)
    /\ Slice(filename, 4, 14) = current_date

\* lines 83-85: the entries _compress_old_logs archives.
IsStaleLog(filename, current_date) ==
    /\ StartsWith(filename, LogPrefix)
    /\ EndsWith(filename, LogSuffix)
    /\ Slice(filename, 4, 14) # current_date

\* lines 82-87, one entry of the listing at a time, in any order; after the last
\* one, line 48.
I_Scan(t) ==
    /\ pc[t] = "i_scan"
    /\ LET self == loc[t].self IN
       IF loc[t].listing = {}
       THEN /\ heap' = [heap EXCEPT ![self].initialized = TRUE]
            /\ ctor' = [ctor EXCEPT !.finished = @ + 1]
            /\ hist' = [hist EXCEPT ![t].built = TRUE]
            /\ Goto(t, "g_assign")
            /\ UNCHANGED loc
       ELSE \E filename \in loc[t].listing :
              /\ loc' = [loc EXCEPT ![t].listing = @ \ {filename},
                                    ![t].file_path =
                                        IF IsStaleLog(filename, heap[self].current_date)
                                        THEN Join(heap[self].log_dir, filename)
                                        ELSE Unset]
              /\ Goto(t, IF IsStaleLog(filename, heap[self].current_date)
                         THEN "i_compress" ELSE "i_scan")
              /\ UNCHANGED <<heap, ctor, hist>>
    /\ UNCHANGED <<git, clock, dirs, files, console, instances, lock, handles,
                   outcome, calls, faults>>

(* ---------------------- MyLogger._archive_log_file -------------------- *)

ArchiveCompressCleansUp(t, next) ==
    LET path == loc[t].file_path IN
    \/ /\ ~Exists(path)
       /\ Raise(t, "FileNotFoundError")
       /\ UNCHANGED <<files, faults, loc, hist>>
    \/ /\ Exists(path)
       /\ files' = WriteFile(files, GzPath(path), Gzip(files[path]))
       /\ hist' = [hist EXCEPT ![t].compressed = @ \cup {path}]
       /\ Goto(t, next)
       /\ UNCHANGED <<loc, outcome, lock, faults>>
    \/ /\ Exists(path)
       /\ faults < MaxFaults
       /\ faults' = faults + 1
       /\ files' = RemoveFile(files, path)
       /\ Raise(t, "OSError")
       /\ UNCHANGED <<loc, hist>>

\* lines 70-72: open the source, compress it into gz_path, close both. The
\* source is opened first: when it is gone, FileNotFoundError leaves before
\* gzip.open has touched the target. A failing copy leaves a truncated target.
ArchiveCompress(t, next) ==
    LET path == loc[t].file_path IN
    \/ /\ ~Exists(path)
       /\ Raise(t, "FileNotFoundError")
       /\ UNCHANGED <<files, faults, loc, hist>>
    \/ /\ Exists(path)
       /\ files' = WriteFile(files, GzPath(path), Gzip(files[path]))
       /\ hist' = [hist EXCEPT ![t].compressed = @ \cup {path}]
       /\ Goto(t, next)
       /\ UNCHANGED <<loc, outcome, lock, faults>>
    \/ /\ Exists(path)
       /\ faults < MaxFaults
       /\ faults' = faults + 1
       /\ files' = WriteFile(files, GzPath(path), GzipTruncated)
       /\ Raise(t, "OSError")
       /\ UNCHANGED <<loc, hist>>

\* lines 73-74: os.remove(file_path), then the "Archived log" line.
ArchiveRemove(t, next) ==
    LET path == loc[t].file_path IN
    \/ /\ ~Exists(path)
       /\ Raise(t, "FileNotFoundError")
       /\ UNCHANGED <<files, console, loc, hist>>
    \/ /\ Exists(path)
       /\ files' = RemoveFile(files, path)
       /\ console' = Emit(console, <<"Archived log: ", path[2], " -> ", GzPath(path)>>)
       /\ hist' = [hist EXCEPT ![t].removed = @ \cup {path}]
       /\ Goto(t, next)
       /\ UNCHANGED <<loc, outcome, lock>>

\* _archive_log_file called from _compress_old_logs (line 87).
I_Compress(t) ==
    /\ pc[t] = "i_compress"
    /\ ArchiveCompress(t, "i_remove")
    /\ ctor' = [ctor EXCEPT !.failed = IF pc'[t] = "idle" THEN @ + 1 ELSE @]
    /\ UNCHANGED <<git, clock, dirs, console, instances, heap, handles, calls>>

I_Remove(t) ==
    /\ pc[t] = "i_remove"
    /\ ArchiveRemove(t, "i_scan")
    /\ ctor' = [ctor EXCEPT !.failed = IF pc'[t] = "idle" THEN @ + 1 ELSE @]
    /\ UNCHANGED <<git, clock, dirs, instances, heap, handles, calls, faults>>

(* ------------------------- MyLogger._write_log ------------------------ *)

\* The messages of a run are told apart by the call that logs them.
MessageOf(n) == <<"message", n>>

\* debug / info / warning / error / critical (message) on a handle the program
\* holds.
LogCall(t, self, level) ==
    /\ pc[t] = "idle"
    /\ calls < MaxCalls
    /\ self \in handles
    /\ calls' = calls + 1
    /\ pc' = [pc EXCEPT ![t] = "w_level"]
    /\ loc' = [loc EXCEPT ![t] = [NoLocals EXCEPT !.op = "write", !.self = self,
                                   !.level = level, !.message = MessageOf(calls + 1)]]
    /\ outcome' = [outcome EXCEPT ![t] = "running"]
    /\ hist' = [hist EXCEPT ![t] = Snapshot(self)]
    /\ Begin(t)
    /\ UNCHANGED <<git, clock, dirs, files, console, instances, lock, heap, handles, faults, ctor>>

W_LevelPrintsNothing(t) ==
    /\ pc[t] = "w_level"
    /\ IF Passes(loc[t].level, heap[loc[t].self].level)
       THEN LET log_message == FormatMessage(FormatTimestamp(clock), loc[t].level,
                                             loc[t].message)
            IN  /\ loc' = [loc EXCEPT ![t].log_message = log_message]
                /\ hist' = [hist EXCEPT ![t].printed = Append(@, log_message)]
                /\ Goto(t, "r_today")
                /\ UNCHANGED <<outcome, console>>
       ELSE /\ Return(t)
            /\ UNCHANGED <<console, loc, hist>>
    /\ UNCHANGED <<git, clock, dirs, files, instances, lock, heap, handles, calls, faults, ctor>>

\* lines 109-114: the threshold, the timestamp, the console line.
W_Level(t) ==
    /\ pc[t] = "w_level"
    /\ IF Passes(loc[t].level, heap[loc[t].self].level)
       THEN LET log_message == FormatMessage(FormatTimestamp(clock), loc[t].level,
                                             loc[t].message)
            IN  /\ console' = Emit(console, ConsoleLine(loc[t].level, log_message))
                /\ loc' = [loc EXCEPT ![t].log_message = log_message]
                /\ hist' = [hist EXCEPT ![t].printed = Append(@, log_message)]
                /\ Goto(t, "r_today")
                /\ UNCHANGED outcome
       ELSE /\ Return(t)
            /\ UNCHANGED <<console, loc, hist>>
    /\ UNCHANGED <<git, clock, dirs, files, instances, lock, heap, handles, calls, faults, ctor>>

\* line 94: today = self._today()
R_Today(t) ==
    /\ pc[t] = "r_today"
    /\ loc' = [loc EXCEPT ![t].today = FormatDate(clock)]
    /\ Goto(t, "r_cmp")
    /\ UNCHANGED <<git, clock, dirs, files, console, instances, lock, heap, handles,
                   outcome, calls, faults, hist, ctor>>

R_CmpNeverRotates(t) ==
    /\ pc[t] = "r_cmp"
    /\ Goto(t, "w_append")
    /\ UNCHANGED <<git, clock, dirs, files, console, instances, lock, heap, handles,
                   loc, outcome, calls, faults, hist, ctor>>

\* line 95: if today != self.current_date
R_Cmp(t) ==
    /\ pc[t] = "r_cmp"
    /\ Goto(t, IF loc[t].today # heap[loc[t].self].current_date
               THEN "r_exists" ELSE "w_append")
    /\ UNCHANGED <<git, clock, dirs, files, console, instances, lock, heap, handles,
                   loc, outcome, calls, faults, hist, ctor>>

R_ExistsNeverArchives(t) ==
    /\ pc[t] = "r_exists"
    /\ Goto(t, "r_setdate")
    /\ UNCHANGED <<git, clock, dirs, files, console, instances, lock, heap, handles,
                   loc, outcome, calls, faults, hist, ctor>>

R_ExistsSetsDateFirst(t) ==
    /\ pc[t] = "r_exists"
    /\ LET log_file == heap[loc[t].self].log_file IN
       IF Exists(log_file)
       THEN /\ loc' = [loc EXCEPT ![t].file_path = log_file]
            /\ heap' = [heap EXCEPT ![loc[t].self].current_date = loc[t].today]
            /\ Goto(t, "r_compress")
       ELSE /\ Goto(t, "r_setdate")
            /\ UNCHANGED <<loc, heap>>
    /\ UNCHANGED <<git, clock, dirs, files, console, instances, lock, handles,
                   outcome, calls, faults, hist, ctor>>

\* lines 96-97: if os.path.exists(self.log_file): the archive is called on it.
R_Exists(t) ==
    /\ pc[t] = "r_exists"
    /\ LET log_file == heap[loc[t].self].log_file IN
       IF Exists(log_file)
       THEN /\ loc' = [loc EXCEPT ![t].file_path = log_file]
            /\ Goto(t, "r_compress")
       ELSE /\ Goto(t, "r_setdate")
            /\ UNCHANGED loc
    /\ UNCHANGED <<git, clock, dirs, files, console, instances, lock, heap, handles,
                   outcome, calls, faults, hist, ctor>>

R_Compress(t) ==
    /\ pc[t] = "r_compress"
    /\ ArchiveCompress(t, "r_remove")
    /\ UNCHANGED <<git, clock, dirs, console, instances, heap, handles, calls, ctor>>

R_Remove(t) ==
    /\ pc[t] = "r_remove"
    /\ ArchiveRemove(t, "r_setdate")
    /\ UNCHANGED <<git, clock, dirs, instances, heap, handles, calls, faults, ctor>>

\* line 98: self.current_date = today
R_SetDate(t) ==
    /\ pc[t] = "r_setdate"
    /\ heap' = [heap EXCEPT ![loc[t].self].current_date = loc[t].today]
    /\ Goto(t, "r_setfile")
    /\ UNCHANGED <<git, clock, dirs, files, console, instances, lock, handles,
                   loc, outcome, calls, faults, hist, ctor>>

\* line 99: self.log_file = self._get_log_filename(); the read of current_date
\* and the assignment are one step.
R_SetFile(t) ==
    /\ pc[t] = "r_setfile"
    /\ heap' = [heap EXCEPT ![loc[t].self].log_file = GetLogFilename(heap[loc[t].self])]
    /\ Goto(t, "w_append")
    /\ UNCHANGED <<git, clock, dirs, files, console, instances, lock, handles,
                   loc, outcome, calls, faults, hist, ctor>>

\* lines 118-119: open(self.log_file, "a") and write the line; when the file
\* cannot be opened for appending, OSError leaves with the file system as it was.
W_Append(t) ==
    /\ pc[t] = "w_append"
    /\ LET log_file == heap[loc[t].self].log_file
           line == FileLine(loc[t].log_message)
       IN  \/ /\ files' = AppendFile(files, log_file, line)
              /\ hist' = [hist EXCEPT ![t].appended = Append(@, <<log_file, line>>)]
              /\ Return(t)
              /\ UNCHANGED <<lock, faults>>
           \/ /\ faults < MaxFaults
              /\ faults' = faults + 1
              /\ Raise(t, "OSError")
              /\ UNCHANGED <<files, hist>>
    /\ UNCHANGED <<git, clock, dirs, console, instances, heap, handles, loc, calls, ctor>>

(* ------------------------------ the clock ----------------------------- *)

\* Midnight passes.
Tick ==
    /\ clock < MaxDate
    /\ clock' = clock + 1
    /\ UNCHANGED <<git, dirs, files, console, instances, lock, heap, handles,
                   pc, loc, outcome, calls, faults, hist, quiet, ctor>>

(* ------------------------------ the tests ----------------------------- *)

\* test_logger.py line 64: between two calls the test sets the tracked date of
\* the logger it holds to a day other than today. It counts as one of the
\* program's calls.
Poke(self, d) ==
    /\ \A t \in Threads : pc[t] = "idle"
    /\ self \in handles
    /\ calls < MaxCalls
    /\ d # clock
    /\ heap[self].current_date # FormatDate(d)
    /\ calls' = calls + 1
    /\ heap' = [heap EXCEPT ![self].current_date = FormatDate(d)]
    /\ quiet' = [t \in Threads |-> FALSE]
    /\ UNCHANGED <<git, clock, dirs, files, console, instances, lock, handles,
                   pc, loc, outcome, faults, hist, ctor>>

(* ------------------------------ git_tool ------------------------------ *)

\* The command lines main is run with: each option given or left out. A date
\* is the sequence of the parts its dashes separate.
GitArgs == [branch : {None, "develop"},
            start_date : {None, <<"01", "04", "2025">>},
            end_date : {None, <<"yesterday">>},
            author : {None, "John Doe"}]

\* What git writes to its standard output: lines, each the sequence of the parts
\* its "|" separate.
GitStdouts == { <<>>,
                << <<"abc123", "John Doe", "01-04-2025">>,
                   <<"def456", "Jane Doe", "02-04-2025">>,
                   <<"0a1b2c", "John Doe", "03-04-2025">> >>,
                << <<"* abc123 Commit 1">> >> }

\* What subprocess.run hands back: a completed process, or the exception it
\* raises when there is no git to run.
GitResults ==
    {[returncode |-> 0, stdout |-> o, stderr |-> "", raises |-> "none"] : o \in GitStdouts}
    \cup {[returncode |-> c, stdout |-> o, stderr |-> "fatal: error", raises |-> "none"] :
             c \in {1, 128}, o \in GitStdouts}
    \cup {[returncode |-> 0, stdout |-> <<>>, stderr |-> "", raises |-> "FileNotFoundError"]}

\* The exceptions "except Exception" catches: SystemExit is not one of them.
IsException(status) == status \in {"FileNotFoundError"}

run_git_commandAlwaysReturns(g, args, res, next) ==
    LET h == [g EXCEPT !.ran = Append(@, <<"git">> \o args), !.result = res] IN
    IF res.raises # "none"
    THEN [h EXCEPT !.pc = "done", !.status = res.raises]
    ELSE [h EXCEPT !.pc = next, !.ret = res.stdout]

\* lines 19-24: run git; a non-zero exit code prints the error and exits with
\* status 1, otherwise the captured stdout is returned to the code at next.
run_git_command(g, args, res, next) ==
    LET h == [g EXCEPT !.ran = Append(@, <<"git">> \o args), !.result = res] IN
    IF res.raises # "none"
    THEN [h EXCEPT !.pc = "done", !.status = res.raises]
    ELSE IF res.returncode # 0
         THEN [h EXCEPT !.out = Append(@, <<"Git command error:", res.stderr>>),
                        !.pc = "done", !.status = "SystemExit", !.code = 1]
         ELSE [h EXCEPT !.pc = next, !.ret = res.stdout]

\* lines 37-41: git rev-parse --verify branch; a non-zero exit code prints the
\* error and exits with status 1, otherwise the function returns None.
check_branch_exists(g, branch, res, next) ==
    LET h == [g EXCEPT !.ran = Append(@, <<"git", "rev-parse", "--verify", branch>>),
                       !.result = res] IN
    IF res.raises # "none"
    THEN [h EXCEPT !.pc = "done", !.status = res.raises]
    ELSE IF res.returncode # 0
         THEN [h EXCEPT !.out = Append(@, <<"Error: Branch '", branch, "' does not exist.">>),
                        !.pc = "done", !.status = "SystemExit", !.code = 1]
         ELSE [h EXCEPT !.pc = next, !.ret = None]

\* lines 57-64: dd-mm-yyyy to yyyy-mm-dd; anything else as it is.
convert_date(date_str) ==
    IF Len(date_str) = 3 THEN <<date_str[3], date_str[2], date_str[1]>> ELSE date_str

\* lines 74-79 and 107-112: the options both git log commands share.
FilterArgs(a) ==
    (IF a.start_date # None THEN << <<"--since=", convert_date(a.start_date)>> >> ELSE <<>>)
    \o (IF a.end_date # None THEN << <<"--until=", convert_date(a.end_date)>> >> ELSE <<>>)
    \o (IF a.author # None THEN << <<"--author=", a.author>> >> ELSE <<>>)

\* lines 67-79
overview_args(a) ==
    (IF a.branch # None THEN <<a.branch>> ELSE <<>>)
    \o <<"--pretty=format:%H|%an|%ad", "--date=format:%d-%m-%Y">> \o FilterArgs(a)

\* lines 103-112
graph_args(a) ==
    (IF a.branch # None THEN <<a.branch>> ELSE <<>>)
    \o <<"--graph", "--oneline">> \o FilterArgs(a)

\* lines 87-93: the lines of at least three parts, and their authors in the order
\* the Counter first meets them.
CommitLines(output) == SelectSeq(output, LAMBDA line : Len(line) >= 3)

RECURSIVE authors_counter(_)
authors_counter(lines) ==
    IF lines = <<>> THEN <<>>
    ELSE LET before == authors_counter(SubSeq(lines, 1, Len(lines) - 1))
             commit_author == lines[Len(lines)][2]
             count == Cardinality({k \in DOMAIN lines : lines[k][2] = commit_author})
         IN  IF \E k \in DOMAIN before : before[k][1] = commit_author
             THEN [k \in DOMAIN before |->
                      IF before[k][1] = commit_author THEN <<commit_author, count>>
                      ELSE before[k]]
             ELSE Append(before, <<commit_author, 1>>)

\* lines 82-100: what the overview prints for git log's output.
OverviewReport(output) ==
    IF output = <<>>
    THEN << <<"No commits found for the specified period.">> >>
    ELSE << <<"\nCommit Overview">>, <<"---------------">>,
            <<"Total commits: ", Len(CommitLines(output))>>,
            <<"Commits by author:">> >>
         \o [k \in DOMAIN authors_counter(CommitLines(output)) |->
                <<"  ", authors_counter(CommitLines(output))[k][1], ": ",
                  authors_counter(CommitLines(output))[k][2]>>]

RECURSIVE PrintAll(_, _)
PrintAll(out, lines) ==
    IF lines = <<>> THEN out ELSE PrintAll(Append(out, lines[1]), Tail(lines))

\* A test calls run_git_command(args).
Call_run_git_command(args, res) ==
    /\ git.pc = "idle"
    /\ git' = run_git_command([git EXCEPT !.entry = "run_git_command", !.args = args],
                              args, res, "returned")
    /\ UNCHANGED loggerVars

\* A test calls check_branch_exists(branch).
Call_check_branch_exists(branch, res) ==
    /\ git.pc = "idle"
    /\ git' = check_branch_exists([git EXCEPT !.entry = "check_branch_exists",
                                              !.args = branch],
                                  branch, res, "returned")
    /\ UNCHANGED loggerVars

\* lines 121-129: the command line is parsed.
Main(a) ==
    /\ git.pc = "idle"
    /\ git' = [git EXCEPT !.entry = "main", !.args = a, !.pc = "main_revparse"]
    /\ UNCHANGED loggerVars

\* lines 132-136: run_git_command in a try whose handler catches Exception.
MainRevParse(res) ==
    /\ git.pc = "main_revparse"
    /\ LET g == run_git_command(git, <<"rev-parse", "--is-inside-work-tree">>, res,
                                "main_branch")
       IN  git' = IF IsException(g.status)
                  THEN [g EXCEPT !.out = Append(@, <<"This command must be run inside a git repository.">>),
                                 !.pc = "done", !.status = "SystemExit", !.code = 1]
                  ELSE g
    /\ UNCHANGED loggerVars

\* lines 138-139
MainBranch(res) ==
    /\ git.pc = "main_branch"
    /\ git' = IF git.args.branch # None
              THEN check_branch_exists(git, git.args.branch, res, "overview_log")
              ELSE [git EXCEPT !.pc = "overview_log"]
    /\ UNCHANGED loggerVars

\* lines 67-100: the first git log and the report.
Overview(res) ==
    /\ git.pc = "overview_log"
    /\ LET g == run_git_command(git, <<"log">> \o overview_args(git.args), res, "graph_log")
       IN  git' = IF g.pc = "graph_log"
                  THEN [g EXCEPT !.out = PrintAll(@, OverviewReport(g.ret))]
                  ELSE g
    /\ UNCHANGED loggerVars

\* lines 103-117: the heading, the second git log and its output; main then
\* returns.
Graph(res) ==
    /\ git.pc = "graph_log"
    /\ LET h == [git EXCEPT !.out = PrintAll(@, << <<"\nCommit Graph">>,
                                                  <<"---------------------">> >>)]
           g == run_git_command(h, <<"log">> \o graph_args(git.args), res, "returned")
       IN  git' = IF g.pc = "returned"
                  THEN [g EXCEPT !.out = Append(@, g.ret)]
                  ELSE g
    /\ UNCHANGED loggerVars

(* --------------------------- specifications --------------------------- *)

\* The steps of the threads of T, calling MyLogger with directories of D and
\* level strings of A, and the level methods of L.
NextOf(T, D, A, L) ==
    \/ Tick
    \/ \E t \in T :
         \/ \E dir \in D, level \in A : GetLogger(t, dir, level)
         \/ G_Check1(t) \/ G_Acquire(t) \/ G_Check2(t)
         \/ I_Init(t) \/ I_ListDir(t) \/ I_Scan(t) \/ I_Compress(t) \/ I_Remove(t)
         \/ G_Assign(t) \/ G_Release(t) \/ G_Return(t)
         \/ \E self \in handles, level \in L : LogCall(t, self, level)
         \/ W_Level(t) \/ R_Today(t) \/ R_Cmp(t) \/ R_Exists(t)
         \/ R_Compress(t) \/ R_Remove(t) \/ R_SetDate(t) \/ R_SetFile(t)
         \/ W_Append(t)

\* Two threads, loggers of threshold INFO in the default directory, messages
\* below and at the threshold.
Next == NextOf(Threads, {DirA}, {"info"}, {"DEBUG", "INFO"})

Spec == Init /\ [][Next]_vars

\* One thread, every directory, every level string and every level method.
NextSeq == NextOf({"t1"}, LogDirs, LevelArgs, LevelNames)

SpecSeq == Init /\ [][NextSeq]_vars

\* Two threads and the test's hand on the tracked date.
NextTest ==
    \/ NextOf(Threads, {DirA}, {"info"}, {"INFO"})
    \/ \E self \in handles, d \in Days : Poke(self, d)

SpecTest == Init /\ [][NextTest]_vars

\* A step of Next taken by thread t: a step inside its call, or the start of its
\* next call.
Runs(t) == Next /\ pc'[t] # pc[t]

\* The threads of Spec under a scheduler that lets every thread that can run
\* run, in a process that keeps calling the logger as long as it may.
SpecLive == Spec /\ \A t \in Threads : WF_vars(Runs(t))

\* git_tool: one of its functions is called, or main runs.
NextGit ==
    \/ \E args \in {<<"log">>, <<"log", "--pretty=format:%H|%an|%ad">>}, res \in GitResults :
          Call_run_git_command(args, res)
    \/ \E branch \in {"develop", "nonexistent"}, res \in GitResults :
          Call_check_branch_exists(branch, res)
    \/ \E a \in GitArgs : Main(a)
    \/ \E res \in GitResults :
          MainRevParse(res) \/ MainBranch(res) \/ Overview(res) \/ Graph(res)

SpecGit == Init /\ [][NextGit]_vars

(* ------------------------------- claims ------------------------------- *)

Finished(t, op) == pc[t] = "idle" /\ loc[t].op = op /\ outcome[t] = "ok"

Moves(t) == pc'[t] # pc[t]

\* C1: however the threads race through their first MyLogger(...) calls, the
\* constructor body runs to its end at most once, it is started exactly once
\* when no attempt fails, and every call that returns returns the one
\* registered instance.
C1_ConstructedOnce ==
    /\ ctor.finished <= 1
    /\ (ctor.failed = 0 => ctor.started <= 1)
    /\ handles \subseteq {instances} \ {NoInst}
    /\ \A t \in Threads :
         Finished(t, "get") =>
            /\ hist[t].returned = instances
            /\ instances # NoInst
            /\ ctor.finished = 1
            /\ (ctor.failed = 0 => ctor.started = 1)

\* Two threads have both passed the unlocked check before any instance existed;
\* one has constructed and returned, the other finds the instance under the lock.
C1_Witness ==
    \E t, u \in Threads :
        /\ Finished(u, "get") /\ hist[u].built
        /\ pc[t] = "g_release" /\ ~hist[t].present /\ ~hist[t].built

\* C2: configure-once. A MyLogger(...) call made while an instance is registered
\* changes no logger field, creates no directory, lists and touches no file, and
\* returns the registered instance; the directory and the level of a logger
\* never change after its construction.
C2_ConfigureOnce ==
    [][ /\ \A i \in DOMAIN heap :
             /\ i \in DOMAIN heap'
             /\ heap'[i].log_dir = heap[i].log_dir
             /\ heap'[i].level = heap[i].level
        /\ (instances # NoInst => instances' = instances)
        /\ \A t \in Threads :
             (Moves(t) /\ pc[t] # "idle" /\ loc[t].op = "get" /\ hist[t].present) =>
                /\ heap' = heap /\ dirs' = dirs /\ files' = files
                /\ pc'[t] \in {"g_return", "idle"}
                /\ (pc'[t] = "idle" =>
                      outcome'[t] = "ok" /\ hist'[t].returned = instances)
      ]_vars

\* A later call, for another directory than the logger's, has returned.
C2_Witness ==
    \E t \in Threads :
        /\ Finished(t, "get") /\ hist[t].present
        /\ loc[t].dir # heap[hist[t].returned].log_dir
        /\ loc[t].dir \notin dirs

\* C3 (as amended): a level method whose level is strictly below the logger's
\* threshold writes nothing to the console and nothing to disk, and returns.
C3_BelowThresholdSilent ==
    [][ \A t \in Threads :
          (Moves(t) /\ pc[t] # "idle" /\ loc[t].op = "write"
             /\ LEVELS[loc[t].level] < LEVELS[heap[loc[t].self].level]) =>
                /\ console' = console /\ files' = files
                /\ pc'[t] = "idle" /\ outcome'[t] = "ok"
      ]_vars

\* C3 as stated: the same for a level at or below the threshold.
C3_AsStated ==
    [][ \A t \in Threads :
          (Moves(t) /\ pc[t] # "idle" /\ loc[t].op = "write"
             /\ LEVELS[loc[t].level] <= LEVELS[heap[loc[t].self].level]) =>
                /\ console' = console /\ files' = files
      ]_vars

\* A call below the threshold has returned.
C3_Witness ==
    \E t \in Threads :
        /\ Finished(t, "write")
        /\ LEVELS[loc[t].level] < LEVELS[heap[loc[t].self].level]
        /\ hist[t].printed = <<>> /\ hist[t].appended = <<>>

\* What a level-method call that has returned has appended.
C4_Returned(t) ==
    LET self == heap[loc[t].self]
        appended == hist[t].appended
    IN  /\ (appended # <<>>) <=> (LEVELS[loc[t].level] >= LEVELS[self.level])
        /\ Len(appended) <= 1
        /\ \A k \in DOMAIN appended :
              \E d \in Days :
                 appended[k][2] = <<"[", FormatDate(d) \o <<" ", "00:00:00">>, "] [",
                                    loc[t].level, "] ", loc[t].message, "\n">>

\* C4: a level-method call that returns has appended a line if and only if its
\* level is at or above the threshold: one line "[timestamp] [LEVEL] message"
\* and a newline, at the end of the file log_file names at that moment (created
\* if absent), every other file left as it was.
C4_AppendsIffAtOrAbove ==
    [][ \A t \in Threads :
          /\ (Finished(t, "write") => C4_Returned(t))'
          /\ (Moves(t) /\ pc[t] = "w_append" /\ outcome'[t] = "ok") =>
                LET path == heap[loc[t].self].log_file
                    line == hist'[t].appended[Len(hist'[t].appended)]
                IN  /\ line[1] = path
                    /\ DOMAIN files' = DOMAIN files \cup {path}
                    /\ \A p \in DOMAIN files : p # path => files'[p] = files[p]
                    /\ files'[path] =
                          (IF path \in DOMAIN files THEN files[path] ELSE <<>>) \o <<line[2]>>
      ]_vars

\* A call at the threshold has created the log file with its line.
C4_Witness ==
    \E t \in Threads :
        /\ Finished(t, "write")
        /\ loc[t].level = heap[loc[t].self].level
        /\ Len(hist[t].appended) = 1
        /\ hist[t].appended[1][1] \notin DOMAIN hist[t].pre

\* The constructor body has run to its end in thread t's call, and no other
\* thread has stepped since that call began.
C5_Constructed(t) ==
    /\ hist[t].built /\ quiet[t]
    /\ \/ pc[t] \in {"g_assign", "g_release", "g_return"}
       \/ Finished(t, "get")

C5_StaleBefore(t) ==
    LET self == heap[loc[t].self] IN
    {d \in Days : /\ Join(self.log_dir, LogName(FormatDate(d))) \in DOMAIN hist[t].pre
                  /\ FormatDate(d) # self.current_date}

\* C5: when the call that constructs the logger returns, every file
\* log_<d>.log that was in its directory when the call began, d a date other than
\* the logger's current_date, is gone, and log_<d>.log.gz holds its bytes.
C5_StaleLogsArchived ==
    \A t \in Threads :
       C5_Constructed(t) =>
          \A d \in C5_StaleBefore(t) :
             LET path == Join(heap[loc[t].self].log_dir, LogName(FormatDate(d))) IN
             /\ path \notin DOMAIN files
             /\ GzPath(path) \in DOMAIN files
             /\ GzipIntact(files[GzPath(path)])
             /\ Gunzip(files[GzPath(path)]) = hist[t].pre[path]

\* The constructing call has returned, and there was a stale log to archive.
C5_Witness ==
    \E t \in Threads :
       /\ Finished(t, "get") /\ hist[t].built /\ quiet[t]
       /\ C5_StaleBefore(t) # {}

\* A level-method call at or above the threshold has returned, undisturbed by
\* other threads; its rotation check read a date other than the date the logger
\* tracked when the call began, and the file log_file named then existed.
C6_Rotated(t) ==
    /\ Finished(t, "write") /\ quiet[t]
    /\ hist[t].printed # <<>>
    /\ hist[t].old_date # loc[t].today
    /\ hist[t].old_file \in DOMAIN hist[t].pre

C6_Archived(t) ==
    LET old == hist[t].old_file
        new == Join(heap[loc[t].self].log_dir, LogName(loc[t].today))
        line == FileLine(loc[t].log_message)
    IN  /\ GzPath(old) \in DOMAIN files
        /\ GzipIntact(files[GzPath(old)])
        /\ Gunzip(files[GzPath(old)]) = hist[t].pre[old]
        /\ new \in DOMAIN files
        /\ files[new][Len(files[new])] = line

\* C6 (as amended): after such a call the old file's .gz holds the old content,
\* today's file exists and ends with the new line, and the old plain file is
\* gone, unless log_file already named today's file (the tracked date was set by
\* hand), where the append has created it again with the new line alone.
C6_RotationOnDateChange ==
    \A t \in Threads :
       C6_Rotated(t) =>
          LET old == hist[t].old_file
              new == Join(heap[loc[t].self].log_dir, LogName(loc[t].today))
          IN  /\ C6_Archived(t)
              /\ (old # new => old \notin DOMAIN files)
              /\ (old = new => files[old] = <<FileLine(loc[t].log_message)>>)

\* C6 as stated: the old plain file is gone in every case.
C6_AsStated ==
    \A t \in Threads :
       C6_Rotated(t) => C6_Archived(t) /\ hist[t].old_file \notin DOMAIN files

\* The clock has advanced and a call has rotated from the old day's file to the
\* new day's.
C6_Witness ==
    \E t \in Threads :
       /\ C6_Rotated(t)
       /\ hist[t].old_file # Join(heap[loc[t].self].log_dir, LogName(loc[t].today))
       /\ hist[t].old_file = Join(heap[loc[t].self].log_dir, LogName(hist[t].old_date))

\* C7: a message whose rotation check has read date D is appended to the file
\* named for D, and never to a path its own call has just archived.
C7_AppendAfterRotation ==
    \A t \in Threads :
       (Finished(t, "write") /\ hist[t].appended # <<>>) =>
          /\ hist[t].appended[1][1] = Join(heap[loc[t].self].log_dir, LogName(loc[t].today))
          /\ hist[t].appended[1][1] \notin hist[t].removed

ArchivePcs == {"i_compress", "i_remove", "r_compress", "r_remove"}

\* C8: an archive step that finds its source file gone raises nothing and leaves
\* every file, the .gz target included, as it was.
C8_VanishedSourceIsNoOp ==
    [][ \A t \in Threads :
          (Moves(t) /\ pc[t] \in ArchivePcs /\ loc[t].file_path \notin DOMAIN files) =>
             /\ files' = files
             /\ outcome'[t] \in {"running", "ok"}
      ]_vars

\* C9: a plain file leaves the file system only in the os.remove step of a thread
\* whose compression of that file has completed; a compression step that fails
\* changes no file but its .gz target and ends the call with the error.
C9_RemoveOnlyAfterCompression ==
    [][ /\ \A p \in (DOMAIN files) \ (DOMAIN files') :
             \E t \in Threads :
                /\ Moves(t) /\ pc[t] \in {"i_remove", "r_remove"}
                /\ loc[t].file_path = p
                /\ p \in hist[t].compressed
        /\ \A t \in Threads :
             (Moves(t) /\ pc[t] \in {"i_compress", "r_compress"} /\ pc'[t] = "idle") =>
                /\ outcome'[t] \in {"OSError", "FileNotFoundError"}
                /\ \A p \in DOMAIN files :
                      p # GzPath(loc[t].file_path) =>
                         p \in DOMAIN files' /\ files'[p] = files[p]
      ]_vars

\* A compression has failed: the call has ended with the error, the source file
\* is there with its content, the target is a truncated container.
C9_Witness ==
    \E t \in Threads :
       /\ pc[t] = "idle" /\ outcome[t] = "OSError" /\ loc[t].op = "write"
       /\ loc[t].file_path \in DOMAIN files
       /\ files[loc[t].file_path] = hist[t].pre[loc[t].file_path]
       /\ ~GzipIntact(files[GzPath(loc[t].file_path)])

\* C10: whenever a thread is inside a level method, outside its own two
\* assignments of lines 98-99, the logger's log_file is the path of its
\* current_date.
C10_PathFollowsDate ==
    \A t \in Threads :
       (pc[t] \notin {"idle", "r_setfile"} /\ loc[t].op = "write") =>
          heap[loc[t].self].log_file = GetLogFilename(heap[loc[t].self])

\* C11: the threads whose level-method calls have compressed one and the same
\* active file (opened it and written its .gz target) in their rotation checks
\* are at most one.
C11_ArchivedOnce ==
    \A t, u \in Threads :
       (/\ loc[t].op = "write" /\ loc[u].op = "write"
        /\ hist[t].compressed \cap hist[u].compressed # {}) => t = u

\* The plain files log_*.log in the registered logger's directory, other than
\* the file log_file names.
C12_OtherPlainLogs ==
    IF instances = NoInst THEN {}
    ELSE {p \in DOMAIN files : /\ p[1] = heap[instances].log_dir
                               /\ StartsWith(p[2], LogPrefix)
                               /\ EndsWith(p[2], LogSuffix)
                               /\ p # heap[instances].log_file}

C13_Failed(t) ==
    /\ pc[t] = "idle" /\ loc[t].op = "write"
    /\ outcome[t] \in {"OSError", "FileNotFoundError"}

\* The lines of every plain file and of every readable archive.
C13_LinesOnDisk ==
    UNION {{files[p][k] : k \in DOMAIN files[p]} :
              p \in {q \in DOMAIN files : ~EndsWith(q[2], GzSuffix)}}
    \cup
    UNION {{Gunzip(files[p])[k] : k \in DOMAIN Gunzip(files[p])} :
              p \in {q \in DOMAIN files : EndsWith(q[2], GzSuffix)}}

\* C13: a level-method call at or above the threshold that fails in its rotation
\* check or in its append has printed its formatted message before failing, ends
\* with the error in its caller (the call makes no further step), has appended
\* nothing, and its message is in no file; every step of the rotation check and
\* of the append comes after the console line.
C13_WriteFailure ==
    /\ \A t \in Threads :
          C13_Failed(t) =>
             /\ LEVELS[loc[t].level] >= LEVELS[heap[loc[t].self].level]
             /\ hist[t].printed = <<loc[t].log_message>>
             /\ BagIn(ConsoleLine(loc[t].level, loc[t].log_message), console)
             /\ loc[t].log_message[6] = loc[t].message
             /\ hist[t].appended = <<>>
             /\ \A line \in C13_LinesOnDisk :
                   ~(Len(line) >= 6 /\ line[6] = loc[t].message)
    /\ \A t \in Threads :
          (pc[t] \in {"r_today", "r_cmp", "r_exists", "r_compress", "r_remove",
                      "r_setdate", "r_setfile", "w_append"}) =>
             /\ hist[t].printed = <<loc[t].log_message>>
             /\ BagIn(ConsoleLine(loc[t].level, loc[t].log_message), console)

\* An append has failed after the rotation of the same call had archived the old
\* file, and an archive has failed in a rotation check.
C13_Witness ==
    \E t \in Threads :
       /\ C13_Failed(t) /\ outcome[t] = "OSError"
       /\ hist[t].compressed # {} /\ hist[t].removed # {}
       /\ hist[t].printed # <<>>

\* The level each level string names, compared without regard to case; DEBUG
\* for a string that names none.
C14_Expected == [DEBUG |-> "DEBUG", info |-> "INFO", Warning |-> "WARNING",
                 verbose |-> "DEBUG"]

\* C14: the logger a first MyLogger(...) call constructs has the level its level
\* string names case-insensitively, DEBUG when the string names none; the string
\* makes no call fail (a call fails only on an injected I/O failure); the level
\* of every logger is one of the five known levels.
C14_LevelFallback ==
    /\ \A i \in DOMAIN heap : heap[i].level \in {"DEBUG", "INFO", "WARNING", "ERROR", "CRITICAL"}
    /\ \A t \in Threads :
          /\ (loc[t].op = "get" /\ loc[t].self # NoInst) =>
                heap[loc[t].self].level = C14_Expected[loc[t].level]
          /\ (loc[t].op = "get" /\ pc[t] = "idle" /\ outcome[t] # "ok") => faults > 0

\* A logger has been constructed from a string that names no level, and the
\* call has returned it.
C14_Witness ==
    \E t \in Threads :
       /\ Finished(t, "get") /\ hist[t].built
       /\ loc[t].level = "verbose"
       /\ heap[hist[t].returned].level = "DEBUG"

\* C15: run_git_command returns the stdout subprocess.run has captured, as it
\* is, when git's exit code is 0, and ends the program with SystemExit and exit
\* status 1, returning nothing, when it is not; check_branch_exists returns on
\* exit code 0 and ends the program with exit status 1 otherwise.
C15_GitExit ==
    LET res == git.result IN
    /\ (git.entry = "run_git_command" /\ git.pc # "idle" /\ res.raises = "none") =>
          IF res.returncode = 0
          THEN git.pc = "returned" /\ git.status = "none" /\ git.ret = res.stdout
          ELSE /\ git.pc = "done" /\ git.status = "SystemExit" /\ git.code = 1
               /\ git.ret = Unset
    /\ (git.entry = "check_branch_exists" /\ git.pc # "idle" /\ res.raises = "none") =>
          IF res.returncode = 0
          THEN git.pc = "returned" /\ git.status = "none"
          ELSE git.pc = "done" /\ git.status = "SystemExit" /\ git.code = 1

\* git has failed with exit code 128 after writing to its standard output, and
\* run_git_command has ended the program.
C15_Witness ==
    /\ git.entry = "run_git_command" /\ git.pc = "done"
    /\ git.result.returncode = 128 /\ git.result.stdout # <<>>
    /\ git.status = "SystemExit"

\* A level-method call has returned, undisturbed by other threads.
C16_ReturnedAlone(t) == Finished(t, "write") /\ quiet[t]

\* C16 (as amended): a level-method call at or above the threshold reads today's
\* date and compares it with current_date before it appends; when it has
\* returned, no other thread's step in between, current_date is the date it read;
\* a call below the threshold compares nothing; current_date and log_file change
\* only in the rotation check's assignments of lines 98 and 99.
C16_RotationCheckOnWrite ==
    /\ [](\A t \in Threads :
             /\ (C16_ReturnedAlone(t) /\ hist[t].printed # <<>>) =>
                   /\ loc[t].today # Unset
                   /\ heap[loc[t].self].current_date = loc[t].today
             /\ (C16_ReturnedAlone(t) /\ hist[t].printed = <<>>) => loc[t].today = Unset
             /\ (pc[t] = "w_append") => loc[t].today # Unset)
    /\ [][ \A i \in DOMAIN heap :
             /\ heap'[i].current_date # heap[i].current_date =>
                   \E t \in Threads : Moves(t) /\ pc[t] = "r_setdate" /\ loc[t].self = i
             /\ heap'[i].log_file # heap[i].log_file =>
                   \E t \in Threads : Moves(t) /\ pc[t] = "r_setfile" /\ loc[t].self = i
         ]_vars

\* C16 as stated: when a level-method call returns, at any level, current_date
\* is the date the call has read, or today's date when it has read none.
C16_AsStated ==
    [][ \A t \in Threads :
          (Moves(t) /\ C16_ReturnedAlone(t)') =>
             heap'[loc[t].self].current_date =
                IF loc[t].today # Unset THEN loc[t].today ELSE FormatDate(clock)
      ]_vars

\* A call at the threshold has returned after its rotation check moved
\* current_date to the date it read.
C16_Witness ==
    \E t \in Threads :
       /\ C16_ReturnedAlone(t) /\ hist[t].printed # <<>>
       /\ hist[t].old_date # loc[t].today
       /\ heap[loc[t].self].current_date = loc[t].today

\* A name of the form log_<10 characters>.log
C17_Dated(name) ==
    /\ Len(name) = Len(LogPrefix) + 10 + Len(LogSuffix)
    /\ StartsWith(name, LogPrefix)
    /\ EndsWith(name, LogSuffix)

\* C17: when the constructor has run to its end, of the entries its directory
\* had when the call began, those named log_<10 characters>.log with other
\* characters than current_date are gone with their .gz in place, and every
\* other entry is there and has not been archived.
C17_ExactlyDatedLogs ==
    \A t \in Threads :
       C5_Constructed(t) =>
          LET self == heap[loc[t].self] IN
          \A p \in {q \in DOMAIN hist[t].pre : q[1] = self.log_dir} :
             IF C17_Dated(p[2]) /\ SubSeq(p[2], 5, 14) # self.current_date
             THEN p \notin DOMAIN files /\ GzPath(p) \in DOMAIN files
             ELSE p \in DOMAIN files /\ p \notin hist[t].compressed \cup hist[t].removed

\* C18: when main's git rev-parse --is-inside-work-tree ends with a non-zero
\* exit code, main prints "This command must be run inside a git repository.",
\* exits with status 1, and runs no other git command.
C18_NotInRepository ==
    (/\ git.entry = "main" /\ git.pc = "done"
     /\ Len(git.ran) = 1
     /\ git.result.raises = "none" /\ git.result.returncode # 0) =>
        /\ git.status = "SystemExit" /\ git.code = 1
        /\ git.ran = << <<"git", "rev-parse", "--is-inside-work-tree">> >>
        /\ \E k \in DOMAIN git.out :
              git.out[k] = <<"This command must be run inside a git repository.">>

\* The line of thread t's last level-method call, when the call has returned
\* after appending it.
C19_Accepted(t) ==
    IF Finished(t, "write") /\ hist[t].appended # <<>>
    THEN {hist[t].appended[1][2]} ELSE {}

\* C19: every line a level-method call that has returned has appended is in a
\* plain file or in a readable .gz from then on, and no step takes a line that
\* was in a plain file or in a .gz off the disk.
C19_NoMessageLost ==
    /\ [](\A t \in Threads : C19_Accepted(t) \subseteq C13_LinesOnDisk)
    /\ [][C13_LinesOnDisk \subseteq C13_LinesOnDisk']_vars

\* C20: every line the logger has written in a plain file log_<D>.log has a
\* timestamp whose date is D.
C20_TimestampMatchesFile ==
    \A p \in DOMAIN files :
       (StartsWith(p[2], LogPrefix) /\ EndsWith(p[2], LogSuffix)) =>
          \A k \in DOMAIN files[p] :
             LET line == files[p][k] IN
             Len(line) = 7 => SubSeq(line[2], 1, 10) = Slice(p[2], 4, 14)

ConstructorPcs == {"i_init", "i_listdir", "i_scan", "i_compress", "i_remove"}

\* C21: when the constructor raises in a first MyLogger(...) call, the step that
\* raises ends the call with the error, registers no instance, hands out no
\* object and releases the lock; every object a call has returned or the
\* registry holds is one whose constructor has run to its end; a later call that
\* constructs does so from its own arguments.
C21_ConstructionFailure ==
    /\ [][ \A t \in Threads :
             (Moves(t) /\ pc[t] \in ConstructorPcs /\ pc'[t] = "idle") =>
                /\ outcome'[t] \in {"OSError", "FileNotFoundError"}
                /\ instances = NoInst /\ instances' = NoInst
                /\ handles' = handles
                /\ lock = t /\ lock' = NoThread
         ]_vars
    /\ [](\A i \in handles \cup ({instances} \ {NoInst}) : heap[i].initialized)
    /\ [](\A t \in Threads :
             (loc[t].op = "get" /\ loc[t].self # NoInst) =>
                /\ heap[loc[t].self].log_dir = loc[t].dir
                /\ heap[loc[t].self].level = C14_Expected[loc[t].level]
                /\ (pc[t] = "idle" /\ outcome[t] # "ok") =>
                      loc[t].self \notin handles \cup {instances})

\* One thread's construction has failed; the other thread's later call has run
\* the constructor to its end and returned the new logger.
C21_Witness ==
    \E t, u \in Threads :
       /\ pc[u] = "idle" /\ loc[u].op = "get" /\ outcome[u] \in {"OSError", "FileNotFoundError"}
       /\ Finished(t, "get") /\ hist[t].built
       /\ hist[t].returned = instances

\* Thread t's level-method call has ended with an error raised by the archive of
\* its rotation check.
C22_ArchiveFailed(t) ==
    /\ C13_Failed(t)
    /\ loc[t].file_path # Unset
    /\ hist[t].removed = {}

\* C22: no step of a rotation check before line 98 changes current_date or
\* log_file, the failing step included; a call whose archive has failed has
\* appended nothing, and while no other thread steps the logger keeps the date and
\* the path it had when the call began, a date other than the one the call read;
\* a rotation check that finds such a difference goes on to the archive of the
\* file log_file names when it exists.
C22_FailedRotationRetried ==
    /\ [][ \A t \in Threads :
             /\ (Moves(t) /\ pc[t] \in {"w_level", "r_today", "r_cmp", "r_exists",
                                         "r_compress", "r_remove"}) => heap' = heap
             /\ (Moves(t) /\ pc[t] = "r_cmp"
                   /\ loc[t].today # heap[loc[t].self].current_date) => pc'[t] = "r_exists"
             /\ (Moves(t) /\ pc[t] = "r_exists"
                   /\ heap[loc[t].self].log_file \in DOMAIN files) =>
                      /\ pc'[t] = "r_compress"
                      /\ loc'[t].file_path = heap[loc[t].self].log_file
         ]_vars
    /\ [](\A t \in Threads :
             C22_ArchiveFailed(t) =>
                /\ hist[t].appended = <<>>
                /\ \A line \in C13_LinesOnDisk :
                      ~(Len(line) >= 6 /\ line[6] = loc[t].message)
                /\ quiet[t] =>
                      /\ heap[loc[t].self].current_date = hist[t].old_date
                      /\ heap[loc[t].self].log_file = hist[t].old_file
                      /\ loc[t].today # heap[loc[t].self].current_date)

\* After a compression that failed and left a truncated target, a later write
\* has found the same date difference and is about to compress the same file.
C22_Witness ==
    \E t \in Threads :
       /\ pc[t] = "r_compress"
       /\ loc[t].file_path \in DOMAIN files
       /\ GzPath(loc[t].file_path) \in DOMAIN files
       /\ ~GzipIntact(files[GzPath(loc[t].file_path)])
       /\ faults > 0

WritePcs == {"w_level", "r_today", "r_cmp", "r_exists", "r_compress", "r_remove",
             "r_setdate", "r_setfile", "w_append"}

\* A logger whose constructor has finished: its fields are set, its directory
\* exists.
C23_FullyBuilt(i) ==
    /\ heap[i].initialized
    /\ heap[i].log_dir # Unset /\ heap[i].log_dir \in dirs
    /\ heap[i].level \in {"DEBUG", "INFO", "WARNING", "ERROR", "CRITICAL"}
    /\ heap[i].current_date # Unset
    /\ heap[i].log_file # Unset

\* C23: every object the registry holds, a MyLogger(...) call is about to return
\* or has returned, or a level method runs on, is a logger whose constructor has
\* finished; while a thread is inside the constructor no instance is registered,
\* no handle is out, and no thread is inside a level method.
C23_NoPartialLogger ==
    /\ \A i \in handles \cup ({instances} \ {NoInst}) : C23_FullyBuilt(i)
    /\ \A t \in Threads :
          /\ pc[t] = "g_return" => (instances # NoInst /\ C23_FullyBuilt(instances))
          /\ Finished(t, "get") => C23_FullyBuilt(hist[t].returned)
          /\ pc[t] \in WritePcs => C23_FullyBuilt(loc[t].self)
          /\ pc[t] \in ConstructorPcs =>
                /\ instances = NoInst /\ handles = {}
                /\ \A u \in Threads : pc[u] \notin WritePcs

\* A call that began before any instance was registered, and waited for the
\* lock while the other thread's constructor archived a stale log, has returned
\* the finished logger without constructing.
C23_Witness ==
    \E t, u \in Threads :
       /\ Finished(t, "get") /\ ~hist[t].present /\ ~hist[t].built
       /\ hist[u].built /\ hist[u].removed # {}
       /\ C23_FullyBuilt(hist[t].returned)

====
